---- MODULE Spec2Model ----
(***************************************************************************)
(* AltmansExam: the SQLite persistence component (database_manager.py)     *)
(* and the form-to-record wiring of the main window (main_window.py).      *)
(*                                                                         *)
(* Two specifications share the state:                                     *)
(*   Spec     the application: main, MainWindow construction, slider       *)
(*            changes, commits, closeEvent;                                *)
(*   SpecApi  the persistence component driven call by call, as its        *)
(*            operations are exposed to any caller.                        *)
(***************************************************************************)
EXTENDS Integers, Sequences, FiniteSets, TLC

VARIABLES
    pc,            \* "main" | "ensured" | "running" | "exited"
    templateFile,  \* the file at db_path (bundled template), a store content
    targetFile,    \* the file at target_db_path, a store content
    dbOpen,        \* self.db.isOpen() of the DataManager
    sliders,       \* value of the five scale widgets
    summary,       \* value of the altmans_summary widget
    altman_date,   \* value of the altman_date widget
    altman_time,   \* value of the altman_time widget
    last,          \* the latest operation call and how it ended
    prevFile,      \* targetFile as it was when the latest call started
    prevOpen,      \* dbOpen as it was when the latest call started
    events,        \* number of user events / component calls so far
    opens,         \* successful opens of the DataManager connection
    closes         \* invocations of close_database

vars == <<pc, templateFile, targetFile, dbOpen, sliders, summary, altman_date,
          altman_time, last, prevFile, prevOpen, events, opens, closes>>

uiVars == <<sliders, summary, altman_date, altman_time>>

-----------------------------------------------------------------------------
(* Bounds of the exploration *)

MaxEvents == 2

MaxCalls == 3

MaxSteps == 4

(* Program constants *)

ScaleMin == 0

ScaleMax == 5

NumParams == 8

-----------------------------------------------------------------------------
(* Helpers *)

Range(s) == {s[i] : i \in 1..Len(s)}

RECURSIVE Sum(_)
Sum(s) == IF s = <<>> THEN 0 ELSE Head(s) + Sum(Tail(s))

Max(a, b) == IF a >= b THEN a ELSE b

RECURSIVE MaxId(_)
MaxId(rs) == IF rs = <<>> THEN 0 ELSE Max(Head(rs).id, MaxId(Tail(rs)))

Count(tok, s) == Cardinality({i \in 1..Len(s) : s[i] = tok})

IndexOf(x, s) == CHOOSE i \in 1..Len(s) : s[i] = x

-----------------------------------------------------------------------------
(* The store file and the SQL text *)

\* INSERT INTO altman_table( <InsertColumns> ) ...
InsertColumns ==
    <<"altman_date", "altman_time", "altmans_sleep", "altmans_speech",
      "altmans_activity", "altmans_cheer", "altmans_confidence", "altmans_summary">>

\* ... VALUES (?, ?, ?, ?, ?, ?, ?, ?)
InsertValues == <<"?", "?", "?", "?", "?", "?", "?", "?">>

\* CREATE TABLE IF NOT EXISTS altman_table ( id ..., <the eight columns> )
TableColumns == <<"id">> \o InsertColumns

NoFile == [exists |-> FALSE, hasTable |-> FALSE, rows |-> <<>>, seq |-> 0]

EmptyStore == [exists |-> TRUE, hasTable |-> FALSE, rows |-> <<>>, seq |-> 0]

EmptyTable == [exists |-> TRUE, hasTable |-> TRUE, rows |-> <<>>, seq |-> 0]

-----------------------------------------------------------------------------
(* database_manager.py, as functions of the store content *)

\* What one call leaves behind: the store, the connection, how the call ended
\* ("returned" to the caller or "raised" out of the call), what it logged and
\* how many statements it handed to the engine.
Result(store, open, outcome, logged, execs) ==
    [store |-> store, open |-> open, outcome |-> outcome, logged |-> logged,
     execs |-> execs]

\* Variant: no test for an existing target, the template is copied over it.
InitializeDatabaseOverwrite(target, template, ioOk) ==
    IF template.exists /\ ioOk
    THEN Result(template, FALSE, "returned", {}, 0)
    ELSE IF ~target.exists /\ ioOk
         THEN Result(EmptyStore, FALSE, "returned", {}, 0)
         ELSE Result(target, FALSE, "returned", {}, 0)

\* Variant: the fresh store is created with its table.
InitializeDatabaseWithSchema(target, template, ioOk) ==
    IF ~target.exists
    THEN IF ioOk
         THEN Result(IF template.exists THEN template ELSE EmptyTable,
                     FALSE, "returned", {}, 0)
         ELSE Result(target, FALSE, "returned", {"create"}, 0)
    ELSE Result(target, FALSE, "returned", {}, 0)

\* initialize_database(): only a missing target is touched; the template is
\* copied when there is one, else the engine creates an empty file.  ioOk is
\* whether the copy, or the engine's open, succeeds.
InitializeDatabase(target, template, ioOk) ==
    IF ~target.exists
    THEN IF template.exists
         THEN IF ioOk
              THEN Result(template, FALSE, "returned", {}, 0)
              ELSE Result(target, FALSE, "returned", {"create"}, 0)
         ELSE IF ioOk
              THEN Result(EmptyStore, FALSE, "returned", {}, 0)
              ELSE Result(target, FALSE, "returned", {"create"}, 0)
    ELSE Result(target, FALSE, "returned", {}, 0)

\* setup_altman_table(): CREATE TABLE IF NOT EXISTS on self.query; a false
\* exec() is logged.
SetupAltmanTable(store, open, execOk) ==
    IF open /\ execOk
    THEN Result([store EXCEPT !.hasTable = TRUE], open, "returned", {}, 1)
    ELSE Result(store, open, "returned", {"create_table"}, 1)

\* Variant: a failed open is raised to the caller instead of logged.
DataManagerInitRaising(store, openOk, execOk) ==
    IF ~openOk
    THEN Result(store, FALSE, "raised", {}, 0)
    ELSE LET setup == SetupAltmanTable([store EXCEPT !.exists = TRUE], TRUE, execOk)
         IN  Result(setup.store, TRUE, "returned", setup.logged, setup.execs)

\* DataManager.__init__(): open the connection (the engine creates a missing
\* file), log a failed open, then set the tables up in either case.
DataManagerInit(store, openOk, execOk) ==
    LET opened == IF openOk THEN [store EXCEPT !.exists = TRUE] ELSE store
        setup  == SetupAltmanTable(opened, openOk, execOk)
    IN  Result(setup.store, openOk, "returned",
               setup.logged \cup (IF openOk THEN {} ELSE {"open"}), setup.execs)

\* The k-th addBindValue() binds the k-th "?", which stands for the k-th
\* column of the INSERT's column list.
BindRowSwapped(id, bind_values) ==
    [c \in Range(TableColumns) |->
        IF c = "id" THEN id
        ELSE IF c = "altmans_sleep" THEN bind_values[IndexOf("altmans_speech", InsertColumns)]
        ELSE IF c = "altmans_speech" THEN bind_values[IndexOf("altmans_sleep", InsertColumns)]
        ELSE bind_values[IndexOf(c, InsertColumns)]]

BindRow(id, bind_values) ==
    [c \in Range(TableColumns) |->
        IF c = "id" THEN id ELSE bind_values[IndexOf(c, InsertColumns)]]

\* Variant: a plain rowid, one more than the largest id now in the table.
NextIdOfRowsPresent(store) == MaxId(store.rows) + 1

\* AUTOINCREMENT: one more than the largest id the table ever held.
NextId(store) == Max(store.seq, MaxId(store.rows)) + 1

\* Variant: the statement is executed twice.
ExecInsertTwice(store, bind_values) ==
    LET id == NextId(store)
    IN  [store EXCEPT !.rows = @ \o <<BindRow(id, bind_values), BindRow(id + 1, bind_values)>>,
                      !.seq = id + 1]

\* exec() of the prepared INSERT: one row more, or nothing.
ExecInsert(store, bind_values) ==
    LET id == NextId(store)
    IN  [store EXCEPT !.rows = Append(@, BindRow(id, bind_values)), !.seq = id]

\* insert_into_altman_table(*args): the signature takes exactly NumParams
\* values, any other number raises TypeError at the call, before the body.
\* In the body: prepare, bind, compare sql.count('?') with len(bind_values)
\* (ValueError, caught and logged), exec (false is logged).
InsertIntoAltmanTable(store, open, args, execOk) ==
    IF Len(args) # NumParams
    THEN Result(store, open, "raised", {}, 0)
    ELSE LET bind_values == args
         IN  IF Count("?", InsertValues) # Len(bind_values)
             THEN Result(store, open, "returned", {"ValueError"}, 0)
             ELSE IF open /\ store.hasTable /\ execOk
                  THEN Result(ExecInsert(store, bind_values), open, "returned", {}, 1)
                  ELSE Result(store, open, "returned", {"exec"}, 1)

\* Variant: closing a connection that is not open raises to the caller.
CloseDatabaseRaisingWhenClosed(store, open, fault) ==
    IF ~open
    THEN Result(store, open, "raised", {}, 0)
    ELSE IF fault
         THEN Result(store, open, "returned", {"close"}, 0)
         ELSE Result(store, FALSE, "returned", {}, 0)

\* close_database(self): close the connection if it is open; an exception
\* in the body is logged.
CloseDatabase(store, open, fault) ==
    IF fault
    THEN Result(store, open, "returned", {"close"}, 0)
    ELSE IF open
         THEN Result(store, FALSE, "returned", {}, 0)
         ELSE Result(store, open, "returned", {}, 0)

-----------------------------------------------------------------------------
(* main_window.py: the scale widgets and the summary *)

Scales ==
    <<"altmans_sleep", "altmans_speech", "altmans_activity", "altmans_cheer",
      "altmans_confidence">>

\* slider.setRange(0, 5) clamps the value the form gave the widget.
SetRange(v) == IF v < ScaleMin THEN ScaleMin ELSE IF v > ScaleMax THEN ScaleMax ELSE v

SliderValues(sl) == [i \in 1..Len(Scales) |-> sl[Scales[i]]]

IsPositive(v) == v > 0

IsAboveOne(v) == v > 1

\* update_altmans_summary(): the sum of the slider values that are > 0.
UpdateAltmansSummaryOffByOne(sl) == Sum(SelectSeq(SliderValues(sl), IsAboveOne))

UpdateAltmansSummary(sl) == Sum(SelectSeq(SliderValues(sl), IsPositive))

\* The sliders whose valueChanged is connected to update_altmans_summary.
ConnectedButConfidence == Range(Scales) \ {"altmans_confidence"}

Connected == Range(Scales)

-----------------------------------------------------------------------------
(* Inputs *)

Dates == {"2024-05-01", "2024-05-02"}

Times == {"08:30"}

\* Values the generated form may give a slider before setRange(0, 5).
FormValues == {-1, 0, 7}

\* A row left by an earlier session.
OldRow ==
    [id |-> 1, altman_date |-> "2024-04-30", altman_time |-> "21:15",
     altmans_sleep |-> 1, altmans_speech |-> 0, altmans_activity |-> 2,
     altmans_cheer |-> 0, altmans_confidence |-> 0, altmans_summary |-> 3]

OldStore == [exists |-> TRUE, hasTable |-> TRUE, rows |-> <<OldRow>>, seq |-> 1]

TemplateChoices == {NoFile, EmptyTable, OldStore}

TargetChoices == {NoFile, OldStore}

\* Argument lists a caller hands to insert_into_altman_table: eight values,
\* one too few, one too many.
ApiArgs ==
    { <<"2024-05-01", "08:30", 5, 0, 3, 0, 2, 10>>,
      <<"2024-05-02", "08:30", 1, 2, 3, 4, 5, 15>>,
      <<"2024-05-02", "08:30", 0, 0, 0, 0, 0, 0>> }

ApiCalls ==
    ApiArgs \cup {SubSeq(a, 1, Len(a) - 1) : a \in ApiArgs}
            \cup {Append(a, 0) : a \in ApiArgs}

NoCall == [op |-> "none", args |-> <<>>, outcome |-> "returned", logged |-> {},
           execs |-> 0]

Call(op, args, r) ==
    [op |-> op, args |-> args, outcome |-> r.outcome, logged |-> r.logged,
     execs |-> r.execs]

-----------------------------------------------------------------------------
(* Initial state: the process has started, nothing has run *)

Init ==
    /\ pc = "main"
    /\ templateFile \in TemplateChoices
    /\ targetFile \in TargetChoices
    /\ dbOpen = FALSE
    /\ sliders = [s \in Range(Scales) |-> 0]
    /\ summary = 0
    /\ altman_date \in Dates
    /\ altman_time \in Times
    /\ last = NoCall
    /\ prevFile = targetFile
    /\ prevOpen = FALSE
    /\ events = 0
    /\ opens = 0
    /\ closes = 0

-----------------------------------------------------------------------------
(* The application *)

\* The program entry: initialize_database() before the window is built.
Main ==
    /\ pc = "main"
    /\ \E ioOk \in BOOLEAN :
         LET r == InitializeDatabase(targetFile, templateFile, ioOk)
         IN  /\ targetFile' = r.store
             /\ last' = Call("initialize_database", <<>>, r)
    /\ pc' = "ensured"
    /\ prevFile' = targetFile
    /\ prevOpen' = dbOpen
    /\ UNCHANGED <<templateFile, dbOpen, events, opens, closes>>
    /\ UNCHANGED uiVars

\* MainWindow.__init__(): DataManager(), the date and time widgets set to
\* now, the sliders ranged and connected, update_altmans_summary().
MainWindowInit ==
    /\ pc = "ensured"
    /\ \E openOk \in BOOLEAN, execOk \in BOOLEAN :
         LET r == DataManagerInit(targetFile, openOk, execOk)
         IN  /\ targetFile' = r.store
             /\ dbOpen' = r.open
             /\ opens' = opens + (IF openOk THEN 1 ELSE 0)
             /\ last' = Call("DataManager", <<>>, r)
             /\ pc' = IF r.outcome = "raised" THEN "exited" ELSE "running"
    /\ \E form \in FormValues :
         sliders' = [s \in Range(Scales) |-> SetRange(form)]
    /\ summary' = UpdateAltmansSummary(sliders')
    /\ altman_date' \in Dates
    /\ altman_time' \in Times
    /\ prevFile' = targetFile
    /\ prevOpen' = dbOpen
    /\ UNCHANGED <<templateFile, events, closes>>

\* A slider's value changes: valueChanged runs the connected slot at once.
SetScale ==
    /\ pc = "running"
    /\ events < MaxEvents
    /\ \E s \in Range(Scales), v \in ScaleMin..ScaleMax :
         /\ v # sliders[s]
         /\ sliders' = [sliders EXCEPT ![s] = v]
         /\ summary' = IF s \in Connected
                       THEN UpdateAltmansSummary(sliders')
                       ELSE summary
    /\ last' = Call("valueChanged", <<>>, NoCall)
    /\ events' = events + 1
    /\ prevFile' = targetFile
    /\ prevOpen' = dbOpen
    /\ UNCHANGED <<pc, templateFile, targetFile, dbOpen, altman_date,
                   altman_time, opens, closes>>

\* add_altmans_data(): the eight widget values, in the order of the insert's
\* parameters.
AddAltmansData(d, t, sl, sm) == <<d, t>> \o SliderValues(sl) \o <<sm>>

\* actionCommit.triggered: add_altmans_data(..., insert_into_altman_table).
CommitWithin(bound) ==
    /\ pc = "running"
    /\ events < bound
    /\ \E execOk \in BOOLEAN :
         LET args == AddAltmansData(altman_date, altman_time, sliders, summary)
             r    == InsertIntoAltmanTable(targetFile, dbOpen, args, execOk)
         IN  /\ targetFile' = r.store
             /\ last' = Call("insert_into_altman_table", args, r)
    /\ events' = events + 1
    /\ prevFile' = targetFile
    /\ prevOpen' = dbOpen
    /\ UNCHANGED <<pc, templateFile, dbOpen, opens, closes>>
    /\ UNCHANGED uiVars

Commit == CommitWithin(MaxEvents)

\* closeEvent(): save_state(), nothing else.
CloseEvent ==
    /\ pc = "running"
    /\ pc' = "exited"
    /\ last' = Call("closeEvent", <<>>, NoCall)
    /\ prevFile' = targetFile
    /\ prevOpen' = dbOpen
    /\ UNCHANGED <<templateFile, targetFile, dbOpen, events, opens, closes>>
    /\ UNCHANGED uiVars

Next == Main \/ MainWindowInit \/ SetScale \/ Commit \/ CloseEvent

Spec == Init /\ [][Next]_vars

-----------------------------------------------------------------------------
(* The store across sessions: commits, deletions, restarts *)

RECURSIVE Keep(_, _, _)
Keep(rs, sel, i) ==
    IF rs = <<>> THEN <<>>
    ELSE IF i \in sel
         THEN Keep(Tail(rs), sel, i + 1)
         ELSE <<Head(rs)>> \o Keep(Tail(rs), sel, i + 1)

\* delete_selected_rows(): the selected rows leave the table, whole; the
\* others, and the id counter, stay.
DeleteSelectedRows(store, open, sel) ==
    IF open /\ store.hasTable
    THEN Result([store EXCEPT !.rows = Keep(@, sel, 1)], open, "returned", {}, 1)
    ELSE Result(store, open, "returned", {"delete"}, 0)

LifeCommit == CommitWithin(MaxSteps)

\* actionDelete_Record.triggered: delete_selected_rows on the table view.
DeleteRecord ==
    /\ pc = "running"
    /\ events < MaxSteps
    /\ \E sel \in (SUBSET (1..Len(targetFile.rows))) \ {{}} :
         LET r == DeleteSelectedRows(targetFile, dbOpen, sel)
         IN  /\ targetFile' = r.store
             /\ last' = Call("delete_selected_rows", <<>>, r)
    /\ events' = events + 1
    /\ prevFile' = targetFile
    /\ prevOpen' = dbOpen
    /\ UNCHANGED <<pc, templateFile, dbOpen, opens, closes>>
    /\ UNCHANGED uiVars

\* The process ends and is started again: the files stay, the connection and
\* the widgets are gone.
Restart ==
    /\ pc = "exited"
    /\ events < MaxSteps
    /\ pc' = "main"
    /\ dbOpen' = FALSE
    /\ opens' = 0
    /\ closes' = 0
    /\ sliders' = [s \in Range(Scales) |-> 0]
    /\ summary' = 0
    /\ last' = Call("restart", <<>>, NoCall)
    /\ events' = events + 1
    /\ prevFile' = targetFile
    /\ prevOpen' = dbOpen
    /\ UNCHANGED <<templateFile, targetFile, altman_date, altman_time>>

NextLife ==
    \/ Main
    \/ MainWindowInit
    \/ LifeCommit
    \/ DeleteRecord
    \/ CloseEvent
    \/ Restart

SpecLife == Init /\ [][NextLife]_vars

-----------------------------------------------------------------------------
(* The persistence component, call by call *)

ApiInitializeDatabase ==
    /\ pc \in {"main", "ensured"}
    /\ events < MaxCalls
    /\ \E ioOk \in BOOLEAN :
         LET r == InitializeDatabase(targetFile, templateFile, ioOk)
         IN  /\ targetFile' = r.store
             /\ last' = Call("initialize_database", <<>>, r)
    /\ pc' = "ensured"
    /\ events' = events + 1
    /\ prevFile' = targetFile
    /\ prevOpen' = dbOpen
    /\ UNCHANGED <<templateFile, dbOpen, opens, closes>>
    /\ UNCHANGED uiVars

ApiDataManager ==
    /\ pc \in {"main", "ensured"}
    /\ \E openOk \in BOOLEAN, execOk \in BOOLEAN :
         LET r == DataManagerInit(targetFile, openOk, execOk)
         IN  /\ targetFile' = r.store
             /\ dbOpen' = r.open
             /\ opens' = opens + (IF openOk THEN 1 ELSE 0)
             /\ last' = Call("DataManager", <<>>, r)
    /\ pc' = "running"
    /\ prevFile' = targetFile
    /\ prevOpen' = dbOpen
    /\ UNCHANGED <<templateFile, events, closes>>
    /\ UNCHANGED uiVars

ApiSetupAltmanTable ==
    /\ pc = "running"
    /\ events < MaxCalls
    /\ \E execOk \in BOOLEAN :
         LET r == SetupAltmanTable(targetFile, dbOpen, execOk)
         IN  /\ targetFile' = r.store
             /\ last' = Call("setup_altman_table", <<>>, r)
    /\ events' = events + 1
    /\ prevFile' = targetFile
    /\ prevOpen' = dbOpen
    /\ UNCHANGED <<pc, templateFile, dbOpen, opens, closes>>
    /\ UNCHANGED uiVars

ApiInsert ==
    /\ pc = "running"
    /\ events < MaxCalls
    /\ \E args \in ApiCalls, execOk \in BOOLEAN :
         LET r == InsertIntoAltmanTable(targetFile, dbOpen, args, execOk)
         IN  /\ targetFile' = r.store
             /\ last' = Call("insert_into_altman_table", args, r)
    /\ events' = events + 1
    /\ prevFile' = targetFile
    /\ prevOpen' = dbOpen
    /\ UNCHANGED <<pc, templateFile, dbOpen, opens, closes>>
    /\ UNCHANGED uiVars

ApiCloseDatabase ==
    /\ pc = "running"
    /\ events < MaxCalls
    /\ \E fault \in BOOLEAN :
         LET r == CloseDatabase(targetFile, dbOpen, fault)
         IN  /\ dbOpen' = r.open
             /\ last' = Call("close_database", <<>>, r)
    /\ closes' = closes + 1
    /\ events' = events + 1
    /\ prevFile' = targetFile
    /\ prevOpen' = dbOpen
    /\ UNCHANGED <<pc, templateFile, targetFile, opens>>
    /\ UNCHANGED uiVars

NextApi ==
    \/ ApiInitializeDatabase
    \/ ApiDataManager
    \/ ApiSetupAltmanTable
    \/ ApiInsert
    \/ ApiCloseDatabase

SpecApi == Init /\ [][NextApi]_vars

-----------------------------------------------------------------------------
(* Claims *)

Constructed == pc \in {"running", "exited"}

IsInsert == last.op = "insert_into_altman_table"

RowsBefore == Len(prevFile.rows)

RowsNow == Len(targetFile.rows)

PositivePart(v) == IF v > 0 THEN v ELSE 0

C2_CommitSummaryFresh ==
    (Constructed /\ IsInsert) =>
        /\ Len(last.args) = 8
        /\ last.args[8] = PositivePart(last.args[3]) + PositivePart(last.args[4])
                        + PositivePart(last.args[5]) + PositivePart(last.args[6])
                        + PositivePart(last.args[7])
        /\ last.args[3] = sliders["altmans_sleep"]
        /\ last.args[7] = sliders["altmans_confidence"]
        /\ RowsNow > RowsBefore =>
             targetFile.rows[RowsNow].altmans_summary = last.args[8]

\* A commit that follows a slider change (the sliders no longer all agree)
\* and stores its row.
C2_Witness ==
    /\ IsInsert
    /\ events >= 2
    /\ \E s, t \in Range(Scales) : sliders[s] # sliders[t]
    /\ RowsNow = RowsBefore + 1
    /\ last.args[8] > 0

\* C3 as stated: an insert of eight values on an open store that has the
\* table always adds exactly one row.
C3_AlwaysOneRow ==
    (IsInsert /\ Len(last.args) = 8 /\ prevOpen /\ prevFile.hasTable) =>
        /\ last.outcome = "returned"
        /\ last.logged = {}
        /\ RowsNow = RowsBefore + 1

\* C3 amended: such an insert hands the engine one statement and returns;
\* it adds exactly one row, or, when the engine rejects the statement, logs
\* the error and adds none.
C3_OneRowOrLoggedNone ==
    (IsInsert /\ Len(last.args) = 8 /\ prevOpen /\ prevFile.hasTable) =>
        /\ last.outcome = "returned"
        /\ last.execs = 1
        /\ \/ last.logged = {} /\ RowsNow = RowsBefore + 1
           \/ last.logged = {"exec"} /\ targetFile = prevFile
        /\ SubSeq(targetFile.rows, 1, RowsBefore) = prevFile.rows

\* An accepted insert into a table that already held a row.
C3_Witness ==
    /\ IsInsert
    /\ Len(last.args) = 8
    /\ prevOpen
    /\ RowsBefore >= 1
    /\ last.logged = {}
    /\ RowsNow = RowsBefore + 1

\* C4: after a successful insert the table's newest row holds the inserted
\* date, time, five scale values and summary, each in the column of its name.
C4_RoundTrip ==
    (IsInsert /\ last.outcome = "returned" /\ last.logged = {}) =>
        /\ RowsNow = RowsBefore + 1
        /\ LET row == targetFile.rows[RowsNow]
           IN  /\ row.altman_date = last.args[1]
               /\ row.altman_time = last.args[2]
               /\ row.altmans_sleep = last.args[3]
               /\ row.altmans_speech = last.args[4]
               /\ row.altmans_activity = last.args[5]
               /\ row.altmans_cheer = last.args[6]
               /\ row.altmans_confidence = last.args[7]
               /\ row.altmans_summary = last.args[8]

\* A successful insert whose scale values all differ.
C4_Witness ==
    /\ IsInsert
    /\ last.logged = {}
    /\ last.outcome = "returned"
    /\ last.args = <<"2024-05-02", "08:30", 1, 2, 3, 4, 5, 15>>
    /\ RowsNow = RowsBefore + 1

\* C5: no call of a persistence operation ends by raising to its caller.
C5_NothingPropagates == last.outcome = "returned"

C7_InitializeIdempotent ==
    (last.op = "initialize_database" /\ prevFile.exists) =>
        /\ last.outcome = "returned"
        /\ targetFile = prevFile

\* A repeated call: the file it finds differs from the template, so a copy
\* would show.
C7_Witness ==
    /\ last.op = "initialize_database"
    /\ events >= 2
    /\ prevFile.exists
    /\ templateFile.exists
    /\ prevFile # templateFile
    /\ targetFile = prevFile

FirstEnsureOfFreshStore ==
    /\ last.op = "initialize_database"
    /\ ~prevFile.exists
    /\ ~templateFile.exists

\* C8 as stated: with neither store nor template, initialize_database alone
\* (a call that met no error) leaves a store that holds altman_table with
\* zero rows.
C8_FreshStoreHasTable ==
    (FirstEnsureOfFreshStore /\ last.logged = {}) =>
        /\ targetFile.exists
        /\ targetFile.hasTable
        /\ targetFile.rows = <<>>

\* C8 amended: initialize_database alone leaves at most an empty store file,
\* without altman_table; the table, with zero rows, is there once the
\* DataManager construction that follows has opened the store and run
\* setup_altman_table with success.
C8_FreshStoreIsEmpty ==
    /\ FirstEnsureOfFreshStore =>
         /\ ~targetFile.hasTable
         /\ targetFile.rows = <<>>
         /\ targetFile.exists <=> last.logged = {}
    /\ (last.op = "DataManager" /\ ~prevFile.hasTable /\ last.logged = {}) =>
         /\ targetFile.exists
         /\ targetFile.hasTable
         /\ targetFile.rows = <<>>

\* The first call has just created the store file out of nothing.
C8_Witness ==
    /\ FirstEnsureOfFreshStore
    /\ pc = "ensured"
    /\ events = 1
    /\ targetFile.exists
    /\ ~targetFile.hasTable

\* C9: whenever the number of supplied values differs from the number of
\* placeholders, the insert logs the mismatch and returns, the table as it
\* was.
C9_MismatchLoggedAndAborted ==
    (IsInsert /\ Len(last.args) # Count("?", InsertValues)) =>
        /\ last.outcome = "returned"
        /\ "ValueError" \in last.logged
        /\ targetFile = prevFile

\* C10: the connection is opened once, by the construction that follows the
\* ensured store, and the closed window leaves it closed by one close call.
C10_OpenOnceCloseOnce ==
    /\ Constructed => opens <= 1
    /\ pc = "running" => (dbOpen <=> opens = 1)
    /\ (pc = "exited" /\ opens = 1) => (closes = 1 /\ ~dbOpen)

\* C11: close_database returns to its caller and leaves the stored rows as
\* they were; it closes a connection that is open, and on a component that
\* is already closed (a second close after a first) it changes nothing.
C11_CloseIdempotent ==
    last.op = "close_database" =>
        /\ last.outcome = "returned"
        /\ targetFile = prevFile
        /\ ~prevOpen => ~dbOpen
        /\ (prevOpen /\ last.logged = {}) => ~dbOpen

\* Two closes in a row on a store that was open and holds a row: the first
\* closed the connection, the second found it closed.
C11_Witness ==
    /\ last.op = "close_database"
    /\ opens = 1
    /\ closes = 2
    /\ events = 2
    /\ ~prevOpen
    /\ ~dbOpen
    /\ last.logged = {}
    /\ Len(targetFile.rows) >= 1

Ids(rs) == {rs[i].id : i \in 1..Len(rs)}

\* C12: through commits, deletions and restarts the ids in the table are
\* pairwise different, an insert takes an id no record ever had, every row
\* of the table is as it was before the latest operation, and only a
\* deletion removes rows.
C12_IdentityUniqueRecordsImmutable ==
    /\ \A i, j \in 1..RowsNow :
          i # j => targetFile.rows[i].id # targetFile.rows[j].id
    /\ targetFile.seq >= MaxId(targetFile.rows)
    /\ (IsInsert /\ RowsNow > RowsBefore) =>
          /\ targetFile.rows[RowsNow].id > prevFile.seq
          /\ targetFile.rows[RowsNow].id \notin Ids(prevFile.rows)
    /\ prevFile.exists =>
          /\ \A i \in 1..RowsNow : \A j \in 1..RowsBefore :
                targetFile.rows[i].id = prevFile.rows[j].id =>
                    targetFile.rows[i] = prevFile.rows[j]
          /\ last.op # "delete_selected_rows" =>
                /\ RowsNow >= RowsBefore
                /\ SubSeq(targetFile.rows, 1, RowsBefore) = prevFile.rows

\* A restarted session has just opened a store in which the first row was
\* deleted and a later commit took id 2.
C12_Witness ==
    /\ last.op = "DataManager"
    /\ events = 3
    /\ dbOpen
    /\ RowsNow = 1
    /\ targetFile.rows[1].id = 2
    /\ targetFile = prevFile

====
